---------------------------- MODULE Spec2Model ----------------------------
(***************************************************************************)
(* A model of git-rs: the content-addressed object store (hash-object,     *)
(* cat-file, write-tree), the canonical encoding of Blob and Tree objects  *)
(* and the textual form of hashes.                                         *)
(*                                                                         *)
(* Bytes are the integers 0..255 and byte strings are sequences of them.   *)
(* Characters are Unicode code points; a Rust String is a sequence of code *)
(* points and its bytes are the UTF-8 encoding of that sequence.           *)
(***************************************************************************)
EXTENDS Integers, Sequences, FiniteSets, TLC

VARIABLES
    fs,        \* the working directory: path -> node, the root "." left out
    shards,    \* the directories that exist under .git/objects
    objects,   \* the files under .git/objects: <<dir, file>> -> bytes
    out,       \* what the last command returned
    pre,       \* the store as it was when the last command started
    ncmd,      \* how many commands have been run
    reported,  \* what hash-object -w has written: the content and the hash printed
    wt,        \* the running write-tree: its position and its queue of trees
    wr,        \* two concurrent writers of one object (the race specification)
    px         \* one application of a pure function (the codec specification)

vars == <<fs, shards, objects, out, pre, ncmd, reported, wt, wr, px>>

(***************************************************************************)
(* Bounds                                                                  *)
(***************************************************************************)
MaxBlobLen == 2       \* enumerated blob contents have at most this many bytes
MaxTreeEntries == 2   \* enumerated trees have at most this many entries
MaxEdits == 2         \* hash texts differ from a run of '0' in at most this many places
MaxFsEntries == 4     \* the working directory holds at most this many entries
MaxDepth == 3         \* ... nested at most this deep below the root
MaxCmds == 3          \* commands run after the working directory is set up
MaxSession == 2       \* ... when they are commands of every kind
MaxChunk == 2         \* write_all hands the kernel at most this many bytes at a time
MaxRawLen == 2        \* byte strings given to Blob::try_from have at most this many body bytes
MaxRawEntries == 2    \* ... and those given to Tree::try_from this many entries
MaxJunk == 1          \* ... followed by at most this many bytes that are no entry
MaxViewDepth == 2     \* rendered trees nest directories at most this deep

(***************************************************************************)
(* Bytes, characters and numerals                                          *)
(***************************************************************************)
NUL == 0
SP == 32
DecDigit == 48..57
OctDigit == 48..55

Min(S) == CHOOSE x \in S : \A y \in S : x <= y

\* the concatenation of the sequences ss[lo..hi], and of all of ss
RECURSIVE ConcatRange(_, _, _)
ConcatRange(ss, lo, hi) ==
    IF lo > hi THEN <<>>
    ELSE IF lo = hi THEN ss[lo]
    ELSE ConcatRange(ss, lo, (lo + hi) \div 2) \o ConcatRange(ss, (lo + hi) \div 2 + 1, hi)
Concat(ss) == ConcatRange(ss, 1, Len(ss))

\* the sum of the numbers ns[lo..hi], and of all of ns
RECURSIVE SumRange(_, _, _)
SumRange(ns, lo, hi) ==
    IF lo > hi THEN 0
    ELSE IF lo = hi THEN ns[lo]
    ELSE SumRange(ns, lo, (lo + hi) \div 2) + SumRange(ns, (lo + hi) \div 2 + 1, hi)
SumSeq(ns) == SumRange(ns, 1, Len(ns))

\* the sequences over S of length at most n
RECURSIVE SeqsUpTo(_, _)
SeqsUpTo(S, n) ==
    IF n = 0 THEN {<<>>}
    ELSE LET shorter == SeqsUpTo(S, n - 1)
         IN  shorter \cup {Append(q, x) : q \in {r \in shorter : Len(r) = n - 1}, x \in S}

\* "{}" of an unsigned integer
RECURSIVE FmtDec(_)
FmtDec(n) == IF n < 10 THEN <<48 + n>> ELSE FmtDec(n \div 10) \o <<48 + (n % 10)>>

\* "{:o}" of an unsigned integer
RECURSIVE FmtOct(_)
FmtOct(n) == IF n < 8 THEN <<48 + n>> ELSE FmtOct(n \div 8) \o <<48 + (n % 8)>>

\* the UTF-8 encoding of one code point
Utf8(ch) ==
    IF ch < 128 THEN <<ch>>
    ELSE IF ch < 2048 THEN <<192 + (ch \div 64), 128 + (ch % 64)>>
    ELSE IF ch < 65536
         THEN <<224 + (ch \div 4096), 128 + ((ch \div 64) % 64), 128 + (ch % 64)>>
    ELSE <<240 + (ch \div 262144), 128 + ((ch \div 4096) % 64),
           128 + ((ch \div 64) % 64), 128 + (ch % 64)>>

\* String::as_bytes
AsBytes(s) == Concat([i \in 1..Len(s) |-> Utf8(s[i])])

\* str::len: the length in bytes
StrLen(s) == SumSeq([i \in 1..Len(s) |-> Len(Utf8(s[i]))])

StrBlob == <<98, 108, 111, 98, 32>>       \* "blob "
StrTree == <<116, 114, 101, 101, 32>>     \* "tree "

(***************************************************************************)
(* nom's parsers: each returns whether it matched, what it matched and the *)
(* rest of the input.                                                      *)
(***************************************************************************)
PFail == [ok |-> FALSE, val |-> <<>>, rest |-> <<>>]
POk(v, r) == [ok |-> TRUE, val |-> v, rest |-> r]

Drop(s, n) == SubSeq(s, n + 1, Len(s))

\* bytes::complete::tag
Tag(t, s) ==
    IF Len(s) >= Len(t) /\ SubSeq(s, 1, Len(t)) = t THEN POk(t, Drop(s, Len(t))) ELSE PFail

\* the length of the longest prefix of s made of bytes of set
Span(set, s) ==
    LET stop == {i \in 1..Len(s) : s[i] \notin set}
    IN  IF stop = {} THEN Len(s) ELSE Min(stop) - 1

\* character::complete::digit1 and oct_digit1: at least one digit
Many1(set, s) ==
    LET n == Span(set, s)
    IN  IF n = 0 THEN PFail ELSE POk(SubSeq(s, 1, n), Drop(s, n))

\* bytes::complete::take
Take(n, s) == IF Len(s) >= n THEN POk(SubSeq(s, 1, n), Drop(s, n)) ELSE PFail

\* bytes::complete::take_until("\0"): fails when there is no NUL
TakeUntilNul(s) ==
    LET n == Span(0..255 \ {NUL}, s)
    IN  IF n = Len(s) THEN PFail ELSE POk(SubSeq(s, 1, n), Drop(s, n))

\* ParseTo<usize> of a run of decimal digits. A value of UsizeCap or more stands
\* for every larger one (and for None on overflow): no input is that long, so the
\* take that follows fails in each of these cases.
UsizeCap == 1000000
RECURSIVE ParseUsize(_, _)
ParseUsize(ds, acc) ==
    IF ds = <<>> THEN acc
    ELSE LET v == acc * 10 + (Head(ds) - 48)
         IN  ParseUsize(Tail(ds), IF v > UsizeCap THEN UsizeCap ELSE v)

(***************************************************************************)
(* Hash (hash.rs)                                                          *)
(***************************************************************************)
HashLen == 20

\* Sha1 stands for the SHA-1 digest of the sha1 crate: a deterministic function
\* from byte strings to HashLen bytes. The model reads the input as the digits of
\* a number, takes it and the length modulo two primes, and spreads the two
\* remainders over the HashLen bytes; the first four bytes determine them.
\* Poly is the remainder of b[lo..hi] and of the base to the power hi - lo + 1.
RECURSIVE Poly(_, _, _, _, _)
Poly(b, lo, hi, base, mod) ==
    IF lo > hi THEN [h |-> 0, p |-> 1]
    ELSE IF lo = hi THEN [h |-> (b[lo] + 1) % mod, p |-> base % mod]
    ELSE LET l == Poly(b, lo, (lo + hi) \div 2, base, mod)
             r == Poly(b, (lo + hi) \div 2 + 1, hi, base, mod)
         IN  [h |-> (l.h * r.p + r.h) % mod, p |-> (l.p * r.p) % mod]

Sha1(b) ==
    LET a1 == (Poly(b, 1, Len(b), 263, 32749).h + Len(b)) % 32749
        a2 == (Poly(b, 1, Len(b), 269, 32719).h + 7 * Len(b)) % 32719
    IN  [j \in 1..HashLen |->
            IF j = 1 THEN a1 % 256
            ELSE IF j = 2 THEN a1 \div 256
            ELSE IF j = 3 THEN a2 % 256
            ELSE IF j = 4 THEN a2 \div 256
            ELSE (a1 * j + a2 + j) % 256]

\* Hash::from_bytes
FromBytes(b) == Sha1(b)

\* Hash::from_raw: None unless there are exactly HashLen bytes
FromRaw(b) == IF Len(b) # HashLen THEN [some |-> FALSE, buf |-> <<>>]
              ELSE [some |-> TRUE, buf |-> b]

\* impl Writeable for Hash: the compact form
HashWriteable(h) == h

\* A "{b:x}": no padding to two digits.
FmtHex2_Unpadded(b) ==
    LET d(n) == IF n < 10 THEN 48 + n ELSE 87 + n
    IN  IF b < 16 THEN <<d(b)>> ELSE <<d(b \div 16), d(b % 16)>>

\* "{b:02x}" of one byte
FmtHex2(b) ==
    LET d(n) == IF n < 10 THEN 48 + n ELSE 87 + n
    IN  <<d(b \div 16), d(b % 16)>>

\* impl Display for Hash
HashDisplay(h) == Concat([i \in 1..Len(h) |-> FmtHex2(h[i])])

\* to_nibble
ToNibble(ch) ==
    IF ch \in 48..57 THEN [ok |-> TRUE, v |-> ch - 48]
    ELSE IF ch \in 97..102 THEN [ok |-> TRUE, v |-> ch - 97 + 10]
    ELSE [ok |-> FALSE, v |-> ch]

\* impl FromStr for Hash. s is a sequence of characters; the loop takes them two
\* at a time and unwraps both, which panics on a chunk of one character.
HashTextLen == 40
RECURSIVE FromStrLoop(_, _, _)
FromStrLoop(s, i, buf) ==
    IF 2 * i - 1 > Len(s) THEN [res |-> "Ok", buf |-> buf, ch |-> 0]
    ELSE LET first == ToNibble(s[2 * i - 1])
         IN  IF ~first.ok THEN [res |-> "UnexpectedChar", buf |-> <<>>, ch |-> first.v]
             ELSE IF 2 * i > Len(s) THEN [res |-> "Panic", buf |-> <<>>, ch |-> 0]
             ELSE LET second == ToNibble(s[2 * i])
                  IN  IF ~second.ok
                      THEN [res |-> "UnexpectedChar", buf |-> <<>>, ch |-> second.v]
                      ELSE FromStrLoop(s, i + 1, Append(buf, first.v * 16 + second.v))

FromStr(s) ==
    IF StrLen(s) # HashTextLen THEN [res |-> "WrongLength", buf |-> <<>>, ch |-> 0]
    ELSE FromStrLoop(s, 1, <<>>)

\* Hash::dir and Hash::object_path: the first two characters of the hex form,
\* and the pair of them and the rest
HashDir(h) == SubSeq(HashDisplay(h), 1, 2)
ObjectPath(h) == <<SubSeq(HashDisplay(h), 1, 2), Drop(HashDisplay(h), 2)>>

(***************************************************************************)
(* Blob (object.rs)                                                        *)
(***************************************************************************)
\* impl Display for Blob: the header, then every byte written as the character
\* with that code point (ch as char). The result is a String, a sequence of
\* characters: its bytes are AsBytes of it.
BlobDisplay(content) ==
    StrBlob \o FmtDec(Len(content)) \o <<NUL>> \o content

\* A Writeable that writes what Display formats: each byte as a character.
BlobWriteable_AsChars(content) == AsBytes(BlobDisplay(content))

\* impl Writeable for Blob: the header, then the bytes verbatim
BlobWriteable(content) ==
    StrBlob \o FmtDec(Len(content)) \o <<NUL>> \o content

\* impl TryFrom<&[u8]> for Blob
BlobTryFrom(value) ==
    LET p1 == Tag(StrBlob, value)
        p2 == Many1(DecDigit, p1.rest)
        p3 == Tag(<<NUL>>, p2.rest)
        len == ParseUsize(p2.val, 0)
        p4 == Take(len, p3.rest)
    IN  IF ~p1.ok \/ ~p2.ok \/ ~p3.ok \/ ~p4.ok
        THEN [res |-> "FormatError", content |-> <<>>]
        ELSE IF p4.rest # <<>> THEN [res |-> "LengthMismatch", content |-> <<>>]
        ELSE [res |-> "Ok", content |-> p4.val]

\* Object::hash and HashObject::hash of a Blob: the hash of to_string().as_bytes()
ObjectHash(content) == FromBytes(AsBytes(BlobDisplay(content)))

(***************************************************************************)
(* Perms and Tree (object.rs)                                              *)
(***************************************************************************)
REGULAR_FILE == 33188      \* 0o100644
EXECUTABLE_FILE == 33261   \* 0o100755
SYMBOLIC_LINK == 40960     \* 0o120000
DIRECTORY == 16384         \* 0o040000

Perms == {REGULAR_FILE, EXECUTABLE_FILE, SYMBOLIC_LINK, DIRECTORY}

U32Bits == 32
RECURSIVE BitLen(_)
BitLen(n) == IF n = 0 THEN 0 ELSE 1 + BitLen(n \div 2)

\* u32::leading_zeros
LeadingZeros(n) == U32Bits - BitLen(n)

\* A rendered_size that takes every mode for six digits wide.
RenderedSize_SixDigits(perms) == 6

\* Perms::rendered_size
RenderedSize(perms) == (U32Bits - LeadingZeros(perms) + 2) \div 3

\* a TreeEntry
TreeEntry(perms, name, hash) == [perms |-> perms, name |-> name, hash |-> hash]

\* impl Writeable for Tree: the size in the header is computed from the entries'
\* fields, the body is written entry by entry
TreeEntrySize(x) == RenderedSize(x.perms) + 1 + Len(x.name) + 1 + 20

TreeEntryWriteable(x) ==
    FmtOct(x.perms) \o <<SP>> \o x.name \o <<NUL>> \o HashWriteable(x.hash)

TreeWriteable(entries) ==
    LET size == SumSeq([i \in 1..Len(entries) |-> TreeEntrySize(entries[i])])
    IN  StrTree \o FmtDec(size) \o <<NUL>>
        \o Concat([i \in 1..Len(entries) |-> TreeEntryWriteable(entries[i])])

\* parse_perm: None for more than ten digits
MaxPermDigits == 10
RECURSIVE FoldOct(_, _)
FoldOct(ds, acc) == IF ds = <<>> THEN acc ELSE FoldOct(Tail(ds), acc * 8 + (Head(ds) - 48))

ParsePerm(perm) ==
    IF Len(perm) > MaxPermDigits THEN [some |-> FALSE, v |-> 0]
    ELSE [some |-> TRUE, v |-> FoldOct(perm, 0)]

\* entry: one entry of a tree's body
ParseEntry(s) ==
    LET p1 == Many1(OctDigit, s)
        p2 == Tag(<<SP>>, p1.rest)
        perm == ParsePerm(p1.val)
        p3 == TakeUntilNul(p2.rest)
        p4 == Tag(<<NUL>>, p3.rest)
        p5 == Take(20, p4.rest)
    IN  IF ~p1.ok \/ ~p2.ok \/ ~perm.some \/ perm.v \notin Perms
           \/ ~p3.ok \/ ~p4.ok \/ ~p5.ok
        THEN PFail
        ELSE POk(TreeEntry(perm.v, p3.val, FromRaw(p5.val).buf), p5.rest)

RECURSIVE ParseEntries(_, _)
ParseEntries(body, entries) ==
    IF body = <<>> THEN [res |-> "Ok", entries |-> entries]
    ELSE LET e == ParseEntry(body)
         IN  IF ~e.ok THEN [res |-> "FormatError", entries |-> <<>>]
             ELSE ParseEntries(e.rest, Append(entries, e.val))

\* header: "tree ", the length, NUL and that many bytes of body
TreeHeader(s) ==
    LET p1 == Tag(StrTree, s)
        p2 == Many1(DecDigit, p1.rest)
        len == ParseUsize(p2.val, 0)
        p3 == Tag(<<NUL>>, p2.rest)
        p4 == Take(len, p3.rest)
    IN  IF ~p1.ok \/ ~p2.ok \/ ~p3.ok \/ ~p4.ok THEN PFail ELSE p4

\* A try_from that parses the entries before it looks at what follows the body.
TreeTryFrom_EntriesFirst(s) ==
    LET h == TreeHeader(s)
        es == ParseEntries(h.val, <<>>)
    IN  IF ~h.ok \/ es.res # "Ok" THEN [res |-> "FormatError", entries |-> <<>>]
        ELSE IF h.rest # <<>> THEN [res |-> "LengthMismatch", entries |-> <<>>]
        ELSE es

\* impl TryFrom<&[u8]> for Tree
TreeTryFrom(s) ==
    LET h == TreeHeader(s)
    IN  IF ~h.ok THEN [res |-> "FormatError", entries |-> <<>>]
        ELSE IF h.rest # <<>> THEN [res |-> "LengthMismatch", entries |-> <<>>]
        ELSE ParseEntries(h.val, <<>>)

(***************************************************************************)
(* The object store: .git/objects/<2 hex characters>/<38 hex characters>   *)
(***************************************************************************)
\* ZlibWriter and ZlibDecoder stand for flate2's zlib codec: a stream of a
\* two-byte header, the data and a two-byte checksum of the data. Decoding fails
\* on any stream that is not of this form.
Checksum(b) ==
    LET a == (1 + SumSeq(b)) % 65521
    IN  <<a \div 256, a % 256>>

ZlibHeader == <<120, 156>>

ZlibWriter(b) == ZlibHeader \o b \o Checksum(b)

ZlibDecoder(z) ==
    LET n == Len(z)
        data == SubSeq(z, 3, n - 2)
    IN  IF n >= 4 /\ SubSeq(z, 1, 2) = ZlibHeader /\ SubSeq(z, n - 1, n) = Checksum(data)
        THEN [ok |-> TRUE, data |-> data]
        ELSE [ok |-> FALSE, data |-> <<>>]

\* std::fs::create_dir of a directory under .git/objects, which exists
CreateDir(dirs, d) ==
    IF d \in dirs THEN [res |-> "AlreadyExists", dirs |-> dirs]
    ELSE [res |-> "Ok", dirs |-> dirs \cup {d}]

\* An ignore that lets the error through.
Ignore_Never(res, kind) == res

\* IoErrorExt::ignore: an error of the given kind becomes Ok
Ignore(res, kind) == IF res = kind THEN "Ok" ELSE res

\* A create that refuses a file that is there already, as File::create_new does.
FileCreate_New(dirs, files, path) ==
    IF path[1] \notin dirs THEN [res |-> "NotFound", files |-> files]
    ELSE IF path \in DOMAIN files THEN [res |-> "AlreadyExists", files |-> files]
    ELSE [res |-> "Ok", files |-> [q \in DOMAIN files \cup {path} |-> IF q = path THEN <<>> ELSE files[q]]]

\* File::create: creates the file or truncates it; NotFound without its directory
FileCreate(dirs, files, path) ==
    IF path[1] \notin dirs THEN [res |-> "NotFound", files |-> files]
    ELSE [res |-> "Ok", files |-> [q \in DOMAIN files \cup {path} |-> IF q = path THEN <<>> ELSE files[q]]]

\* write(2) of chunk at offset off of a file holding bytes: a gap is zero-filled
WriteAt(bytes, off, chunk) ==
    LET n == IF Len(bytes) > off + Len(chunk) THEN Len(bytes) ELSE off + Len(chunk)
    IN  [i \in 1..n |-> IF i > off /\ i <= off + Len(chunk) THEN chunk[i - off]
                        ELSE IF i <= Len(bytes) THEN bytes[i] ELSE 0]

\* The store write shared by HashObject::write and the loop of write_tree:
\* create_dir(parent).ignore(AlreadyExists)?, File::create(path)?, then the
\* compressed encoding written to the file.
StoreWrite(dirs, files, hash, encoded) ==
    LET path == ObjectPath(hash)
        mk == CreateDir(dirs, HashDir(hash))
        mkres == Ignore(mk.res, "AlreadyExists")
        cr == FileCreate(mk.dirs, files, path)
    IN  IF mkres # "Ok" THEN [res |-> mkres, dirs |-> mk.dirs, files |-> files]
        ELSE IF cr.res # "Ok" THEN [res |-> cr.res, dirs |-> mk.dirs, files |-> files]
        ELSE [res |-> "Ok", dirs |-> mk.dirs,
              files |-> [cr.files EXCEPT ![path] = WriteAt(cr.files[path], 0, ZlibWriter(encoded))]]

\* ZlibReadExt::zlib_read into a Blob or a Tree: decompress, then try_from
ZlibReadBlob(z) ==
    LET d == ZlibDecoder(z)
    IN  IF ~d.ok THEN [res |-> "IoError", content |-> <<>>] ELSE BlobTryFrom(d.data)

ZlibReadTree(z) ==
    LET d == ZlibDecoder(z)
    IN  IF ~d.ok THEN [res |-> "IoError", entries |-> <<>>] ELSE TreeTryFrom(d.data)

(***************************************************************************)
(* TreePrinter (object.rs): what Display writes is a String, a sequence of *)
(* characters.                                                             *)
(***************************************************************************)
Slash == 47
NL == 10
StrTypeTree == <<116, 114, 101, 101>>     \* "tree"
StrTypeBlob == <<98, 108, 111, 98>>       \* "blob"

\* Tree::display and the no_* and recusive methods: the printer's flags
Options == [show_perms : BOOLEAN, show_type : BOOLEAN, show_object : BOOLEAN,
            show_name : BOOLEAN, recurse : BOOLEAN]

\* "{:06o}" of a u32: at least six digits, padded with zeros
PadWidth == 6
FmtOct06(n) ==
    LET d == FmtOct(n)
    IN  IF Len(d) >= PadWidth THEN d ELSE [i \in 1..(PadWidth - Len(d)) |-> 48] \o d

\* PathBuf::push of a name: a name that starts at the root replaces the path,
\* any other is joined to it by a slash unless the path is empty or ends in one
PushDir(prefix, name) ==
    IF name # <<>> /\ Head(name) = Slash THEN name
    ELSE IF prefix = <<>> \/ prefix[Len(prefix)] = Slash THEN prefix \o name
    ELSE prefix \o <<Slash>> \o name

\* Path::display (String::from_utf8_lossy) of bytes in which every character
\* takes one or two bytes: a byte that starts or continues no such character
\* is shown as U+FFFD
ReplacementChar == 65533
RECURSIVE PathDisplay(_)
PathDisplay(b) ==
    IF b = <<>> THEN <<>>
    ELSE IF b[1] < 128 THEN <<b[1]>> \o PathDisplay(Tail(b))
    ELSE IF b[1] \in 194..223 /\ Len(b) >= 2 /\ b[2] \in 128..191
         THEN <<(b[1] - 192) * 64 + (b[2] - 128)>> \o PathDisplay(Drop(b, 2))
    ELSE <<ReplacementChar>> \o PathDisplay(Tail(b))

\* A write_sep that writes the separator whether it is needed or not.
WriteSep_Always(sep, needed) == sep

\* write_sep
WriteSep(sep, needed) == IF needed THEN sep ELSE <<>>

\* the body of the loop of fmt up to writeln!: one entry's line. need_sep is
\* set by each field that is shown.
EntryLine(entry, name, o) ==
    LET perms == IF o.show_perms THEN WriteSep(<<SP>>, FALSE) \o FmtOct06(entry.perms)
                 ELSE <<>>
        sep1 == o.show_perms
        typ == IF o.show_type
               THEN WriteSep(<<SP>>, sep1)
                    \o (IF entry.perms = DIRECTORY THEN StrTypeTree ELSE StrTypeBlob)
               ELSE <<>>
        sep2 == sep1 \/ o.show_type
        object == IF o.show_object THEN WriteSep(<<SP>>, sep2) \o HashDisplay(entry.hash)
                  ELSE <<>>
        sep3 == sep2 \/ o.show_object
        shown == IF o.show_name THEN WriteSep(<<SP>>, sep3) \o PathDisplay(name) ELSE <<>>
    IN  perms \o typ \o object \o shown \o <<NL>>

\* A prefix for the child's printer that is the entry's own name alone.
ChildPrefix_NameOnly(prefix, entry) == entry.name

\* name: the prefix with the entry's name pushed, which is also the prefix of
\* the child's printer
ChildPrefix(prefix, entry) == PushDir(prefix, entry.name)

\* impl Display for TreePrinter: each entry's line and, when recursing into a
\* directory whose Tree can be read, decompressed and decoded, what the
\* child's printer writes; a child that cannot be is skipped (continue)
RECURSIVE TreePrinterFrom(_, _, _, _, _)
TreePrinterFrom(files, entries, i, o, prefix) ==
    IF i > Len(entries) THEN <<>>
    ELSE LET entry == entries[i]
             name == ChildPrefix(prefix, entry)
             path == ObjectPath(entry.hash)
             child == IF path \in DOMAIN files THEN ZlibReadTree(files[path])
                      ELSE [res |-> "NotFound", entries |-> <<>>]
         IN  EntryLine(entry, name, o)
             \o (IF o.recurse /\ entry.perms = DIRECTORY /\ child.res = "Ok"
                 THEN TreePrinterFrom(files, child.entries, 1, o, name)
                 ELSE <<>>)
             \o TreePrinterFrom(files, entries, i + 1, o, prefix)

TreePrinter(files, entries, o) == TreePrinterFrom(files, entries, 1, o, <<>>)

(***************************************************************************)
(* The working directory and WalkDir                                       *)
(***************************************************************************)
Dot == <<46>>                    \* "."
Root == <<Dot>>
FsNames == {<<97>>, <<98>>}      \* "a", "b"

Parent(path) == SubSeq(path, 1, Len(path) - 1)
FileName(path) == path[Len(path)]

\* A node is a directory, a file with its content and mode, or a symbolic link
\* with what reading through it returns; readable is whether std::fs::read of
\* it succeeds.
Dir == [kind |-> "dir", content |-> <<>>, mode |-> 493, readable |-> FALSE]
File(content, mode, readable) ==
    [kind |-> "file", content |-> content, mode |-> mode, readable |-> readable]
Symlink(content, readable) ==
    [kind |-> "symlink", content |-> content, mode |-> 511, readable |-> readable]

Hi == <<104, 105>>               \* "hi"
FsNodes == {Dir, File(Hi, 420, TRUE), File(<<128>>, 493, TRUE),
            File(<<>>, 420, FALSE), Symlink(Hi, TRUE)}

\* The orders in which a directory's entries can be listed
FsOrders ==
    {o \in [1..Cardinality(FsNames) -> FsNames] : \A i, j \in DOMAIN o : o[i] = o[j] => i = j}

\* WalkDir::new("."): the root, then depth first every entry below it, each
\* directory's entries in the order ord; .git is filtered out and is not in fs
RECURSIVE WalkBelow(_, _, _, _)
WalkBelow(f, ord, d, i) ==
    IF i > Len(ord) THEN <<>>
    ELSE LET path == Append(d, ord[i])
         IN  (IF path \notin DOMAIN f THEN <<>>
              ELSE <<[path |-> path, node |-> f[path]]>>
                   \o (IF f[path].kind = "dir" THEN WalkBelow(f, ord, path, 1) ELSE <<>>))
             \o WalkBelow(f, ord, d, i + 1)

Walk(f, ord) == <<[path |-> Root, node |-> Dir]>> \o WalkBelow(f, ord, Root, 1)

(***************************************************************************)
(* Tree::write_tree                                                        *)
(***************************************************************************)
\* hash of a Writeable Tree
TreeHash(entries) == FromBytes(TreeWriteable(entries))

\* the grouping loop: the entries by their parent, those whose parent is the
\* empty path left out
Collection(files) ==
    LET kept == SelectSeq(files, LAMBDA file : Parent(file.path) # <<>>)
    IN  [d \in {Parent(kept[i].path) : i \in 1..Len(kept)} |->
            SelectSeq(kept, LAMBDA file : Parent(file.path) = d)]

\* mode & 0o111 != 0
AnyExecBit(mode) == mode % 2 = 1 \/ (mode \div 8) % 2 = 1 \/ (mode \div 64) % 2 = 1

EntryPerms(node) ==
    IF node.kind = "dir" THEN DIRECTORY
    ELSE IF node.kind = "symlink" THEN SYMBOLIC_LINK
    ELSE IF AnyExecBit(node.mode) THEN EXECUTABLE_FILE
    ELSE REGULAR_FILE

\* foo: the Tree of current, after those of its subdirectories. trees is the
\* vector the Trees are pushed to. The result is Ok with the hash, Err when a
\* file cannot be read, or Panic when current is no key of the map.
RECURSIVE Foo(_, _, _)
RECURSIVE FooLoop(_, _, _, _, _)
FooLoop(map, trees, entries, i, children) ==
    IF i > Len(entries)
    THEN [res |-> "Ok", hash |-> TreeHash(children), trees |-> Append(trees, children)]
    ELSE LET entry == entries[i]
             isdir == entry.node.kind = "dir"
             sub == IF isdir THEN Foo(map, trees, entry.path)
                    ELSE IF entry.node.readable
                    THEN [res |-> "Ok", hash |-> ObjectHash(entry.node.content), trees |-> trees]
                    ELSE [res |-> "Err", hash |-> <<>>, trees |-> trees]
         IN  IF sub.res # "Ok" THEN sub
             ELSE FooLoop(map, sub.trees, entries, i + 1,
                          Append(children, TreeEntry(EntryPerms(entry.node),
                                                     FileName(entry.path), sub.hash)))

Foo(map, trees, current) ==
    IF current \notin DOMAIN map THEN [res |-> "Panic", hash |-> <<>>, trees |-> trees]
    ELSE FooLoop(map, trees, map[current], 1, <<>>)

(***************************************************************************)
(* The codec specification: one pure function applied to one input         *)
(***************************************************************************)
\* "this is a test!\n", the content of tests/cat-file-input
TestContent == <<116, 104, 105, 115, 32, 105, 115, 32, 97, 32, 116, 101, 115, 116, 33, 10>>

BlobBytes == {NUL, 48, 128, 255}
BlobInputs == SeqsUpTo(BlobBytes, MaxBlobLen) \cup {TestContent}

\* Names are those of directory entries: not empty, no NUL and no '/'.
TreeNames == {<<97>>, <<49, 32, 128>>}
TreeHashes == {[i \in 1..HashLen |-> NUL], Sha1(<<>>)}
TreeEntries == {TreeEntry(p, n, h) : p \in Perms, n \in TreeNames, h \in TreeHashes}
TreeInputs == SeqsUpTo(TreeEntries, MaxTreeEntries)

\* Hash texts: 38 to 41 characters, all '0' but for at most MaxEdits of the
\* first, second and last, which are one of f g A / : ` e-acute and the euro sign.
EditChars == {102, 103, 65, 47, 58, 96, 233, 8364}
RECURSIVE Edited(_, _)
Edited(T, k) ==
    IF k = 0 THEN T
    ELSE Edited(T \cup {[t EXCEPT ![q] = c] : t \in T, q \in {1, 2, 38}, c \in EditChars}
                  \cup {[t EXCEPT ![Len(t)] = c] : t \in T, c \in EditChars}, k - 1)
TextInputs == Edited({[i \in 1..n |-> 48] : n \in 38..41}, MaxEdits)

\* Hashes: every byte the same, but for the first and the last
HashBytes == {0, 9, 10, 15, 16, 171, 255}
HashInputs ==
    {[i \in 1..HashLen |-> IF i = 1 THEN a ELSE IF i = HashLen THEN c ELSE b] :
        a \in HashBytes, b \in {0, 171}, c \in HashBytes}

\* Texts of 40 characters of [0-9a-f]: two characters in turn, the first and the
\* last any
HexChars == {48, 57, 97, 102}
HexInputs ==
    {[i \in 1..HashTextLen |-> IF i = 1 THEN a ELSE IF i = HashTextLen THEN d
                                ELSE IF i % 2 = 0 THEN b ELSE c] :
        a \in HexChars, b \in HexChars, c \in HexChars, d \in HexChars}

\* Byte strings given to Blob::try_from: "blob ", a length written with or
\* without leading zeros (or one too long for a usize), NUL, and bytes that are
\* fewer than, as many as or more than the length says
RawBytes == {NUL, 49}
Nines == [i \in 1..21 |-> 57]
RawLenTexts(N) ==
    {z \o FmtDec(n) : z \in {<<>>, <<48>>, <<48, 48>>}, n \in N} \cup {Nines}
RawBlobInputs ==
    {StrBlob \o ds \o <<NUL>> \o body :
        ds \in RawLenTexts(0..MaxRawLen), body \in SeqsUpTo(RawBytes, MaxRawLen + 1)}

\* Byte strings given to Tree::try_from: "tree ", a length, NUL, then entries
\* whose mode is written with or without leading zeros, or is no mode of Perms,
\* then bytes that are no entry; the length counts the entries, or all the bytes,
\* or nothing
RawPermTexts ==
    {<<52, 48, 48, 48, 48>>, <<48, 52, 48, 48, 48, 48>>,
     <<49, 48, 48, 54, 52, 52>>, <<48, 49, 48, 48, 54, 52, 52>>,
     <<49, 48, 48, 55, 53, 53>>, <<49, 50, 48, 48, 48, 48>>,
     <<55, 55, 55>>, <<48, 48, 48, 48, 48, 48, 52, 48, 48, 48, 48>>}
RawEntryTexts ==
    {perm \o <<SP>> \o <<97>> \o <<NUL>> \o [i \in 1..HashLen |-> 49] : perm \in RawPermTexts}
RawTreeInputs ==
    UNION {{StrTree \o ds \o <<NUL>> \o Concat(es) \o junk :
                ds \in RawLenTexts({0, Len(Concat(es)), Len(Concat(es)) + Len(junk)})} :
              es \in SeqsUpTo(RawEntryTexts, MaxRawEntries), junk \in SeqsUpTo(RawBytes, MaxJunk)}

PxStart(kind, in) == [kind |-> kind, pc |-> "in", in |-> in, enc |-> <<>>, dec |-> <<>>]

InitStore ==
    /\ fs = <<>>
    /\ shards = {}
    /\ objects = <<>>
    /\ out = [cmd |-> "none"]
    /\ pre = [shards |-> {}, objects |-> <<>>]
    /\ ncmd = 0
    /\ reported = {}
    /\ wt = [pc |-> "idle"]
    /\ wr = <<>>

InitCodec ==
    /\ InitStore
    /\ px \in {PxStart("blob", c) : c \in BlobInputs}
              \cup {PxStart("tree", t) : t \in TreeInputs}
              \cup {PxStart("text", t) : t \in TextInputs}
              \cup {PxStart("hash", h) : h \in HashInputs}
              \cup {PxStart("hex", s) : s \in HexInputs}
              \cup {PxStart("rawblob", x) : x \in RawBlobInputs}
              \cup {PxStart("rawtree", x) : x \in RawTreeInputs}

storeVars == <<fs, shards, objects, out, pre, ncmd, reported, wt, wr>>

BlobEncode ==
    /\ px.kind = "blob" /\ px.pc = "in"
    /\ px' = [px EXCEPT !.pc = "enc", !.enc = BlobWriteable(px.in)]
    /\ UNCHANGED storeVars

BlobDecode ==
    /\ px.kind = "blob" /\ px.pc = "enc"
    /\ px' = [px EXCEPT !.pc = "dec", !.dec = BlobTryFrom(px.enc)]
    /\ UNCHANGED storeVars

TreeEncode ==
    /\ px.kind = "tree" /\ px.pc = "in"
    /\ px' = [px EXCEPT !.pc = "enc", !.enc = TreeWriteable(px.in)]
    /\ UNCHANGED storeVars

TreeDecode ==
    /\ px.kind = "tree" /\ px.pc = "enc"
    /\ px' = [px EXCEPT !.pc = "dec", !.dec = TreeTryFrom(px.enc)]
    /\ UNCHANGED storeVars

HashParse ==
    /\ px.kind = "text" /\ px.pc = "in"
    /\ px' = [px EXCEPT !.pc = "dec", !.dec = FromStr(px.in)]
    /\ UNCHANGED storeVars

\* to_string() of a Hash, then parse() of the text
HashFormat ==
    /\ px.kind = "hash" /\ px.pc = "in"
    /\ px' = [px EXCEPT !.pc = "enc", !.enc = HashDisplay(px.in)]
    /\ UNCHANGED storeVars

HashReparse ==
    /\ px.kind = "hash" /\ px.pc = "enc"
    /\ px' = [px EXCEPT !.pc = "dec", !.dec = FromStr(px.enc)]
    /\ UNCHANGED storeVars

\* parse() of a text of hex digits, then to_string() of the Hash
HexParse ==
    /\ px.kind = "hex" /\ px.pc = "in"
    /\ px' = [px EXCEPT !.pc = "dec", !.dec = FromStr(px.in)]
    /\ UNCHANGED storeVars

HexFormat ==
    /\ px.kind = "hex" /\ px.pc = "dec" /\ px.dec.res = "Ok"
    /\ px' = [px EXCEPT !.pc = "enc", !.enc = HashDisplay(px.dec.buf)]
    /\ UNCHANGED storeVars

\* Blob::try_from of any bytes, then the Writeable bytes of the Blob it returns
RawBlobDecode ==
    /\ px.kind = "rawblob" /\ px.pc = "in"
    /\ px' = [px EXCEPT !.pc = "dec", !.dec = BlobTryFrom(px.in)]
    /\ UNCHANGED storeVars

RawBlobEncode ==
    /\ px.kind = "rawblob" /\ px.pc = "dec" /\ px.dec.res = "Ok"
    /\ px' = [px EXCEPT !.pc = "enc", !.enc = BlobWriteable(px.dec.content)]
    /\ UNCHANGED storeVars

\* Tree::try_from of any bytes, then the Writeable bytes of the Tree it returns
RawTreeDecode ==
    /\ px.kind = "rawtree" /\ px.pc = "in"
    /\ px' = [px EXCEPT !.pc = "dec", !.dec = TreeTryFrom(px.in)]
    /\ UNCHANGED storeVars

RawTreeEncode ==
    /\ px.kind = "rawtree" /\ px.pc = "dec" /\ px.dec.res = "Ok"
    /\ px' = [px EXCEPT !.pc = "enc", !.enc = TreeWriteable(px.dec.entries)]
    /\ UNCHANGED storeVars

NextCodec ==
    \/ BlobEncode \/ BlobDecode \/ TreeEncode \/ TreeDecode \/ HashParse
    \/ HashFormat \/ HashReparse \/ HexParse \/ HexFormat
    \/ RawBlobDecode \/ RawBlobEncode \/ RawTreeDecode \/ RawTreeEncode

SpecCodec == InitCodec /\ [][NextCodec]_vars

(***************************************************************************)
(* The store specification: a working directory is set up, then commands   *)
(* are run one after the other on an initialised repository.               *)
(***************************************************************************)
FsPaths == {Root \o q : q \in SeqsUpTo(FsNames, MaxDepth) \ {<<>>}}

\* what hash-object reads from its standard input
StdinContents == {<<>>, Hi, <<128>>}

Snapshot == [shards |-> shards, objects |-> objects]

\* the user creates an entry in the working directory
FsCreate(path, node) ==
    /\ ncmd = 0
    /\ Cardinality(DOMAIN fs) < MaxFsEntries
    /\ path \notin DOMAIN fs
    /\ Parent(path) = Root \/ (Parent(path) \in DOMAIN fs /\ fs[Parent(path)].kind = "dir")
    /\ fs' = [q \in DOMAIN fs \cup {path} |-> IF q = path THEN node ELSE fs[q]]
    /\ UNCHANGED <<shards, objects, out, pre, ncmd, reported, wt, wr, px>>

\* HashObject::hash
HashObjectHash(content) == FromBytes(AsBytes(BlobDisplay(content)))

\* Command::HashObject with --stdin: HashObject::write when -w is given, then the
\* hash is printed
HashObject(content, write) ==
    /\ wt.pc = "idle" /\ ncmd < MaxCmds
    /\ \E hash \in {HashObjectHash(content)} :
       \E w \in {IF write THEN StoreWrite(shards, objects, hash, BlobWriteable(content))
                 ELSE [res |-> "Ok", dirs |-> shards, files |-> objects]} :
       \E printed \in {IF w.res = "Ok" THEN HashDisplay(hash) ELSE <<>>} :
           /\ shards' = w.dirs
           /\ objects' = w.files
           /\ out' = [cmd |-> "hash-object", write |-> write, content |-> content,
                      res |-> w.res, printed |-> printed]
           /\ reported' = IF write /\ w.res = "Ok"
                          THEN reported \cup {[content |-> content, printed |-> printed]}
                          ELSE reported
    /\ pre' = Snapshot
    /\ ncmd' = ncmd + 1
    /\ UNCHANGED <<fs, wt, wr, px>>

\* the texts given to cat-file: a hash that hash-object or write-tree printed, the
\* hash of an object that is not stored, and a text that is no hash
AbsentText == HashDisplay(Sha1(<<1>>))
CatArgs ==
    {r.printed : r \in reported}
    \cup (IF out.cmd = "write-tree" /\ out.res = "Ok" THEN {HashDisplay(out.hash)} ELSE {})
    \cup {AbsentText, <<103>>}

\* A pretty that prints the decompressed bytes as they are, header and all.
CatFilePretty_Raw(files, hash) ==
    IF ObjectPath(hash) \notin DOMAIN files THEN [res |-> "NotFound", content |-> <<>>]
    ELSE LET d == ZlibDecoder(files[ObjectPath(hash)])
         IN  [res |-> IF d.ok THEN "Ok" ELSE "IoError", content |-> d.data]

\* CatFile::pretty: the file at the hash's path is opened, read as a Blob and its
\* content written to the standard output
CatFilePretty(files, hash) ==
    IF ObjectPath(hash) \notin DOMAIN files THEN [res |-> "NotFound", content |-> <<>>]
    ELSE ZlibReadBlob(files[ObjectPath(hash)])

\* Command::CatFile with -p: CatFile::new parses the hash, then CatFile::pretty
CatFile(text) ==
    /\ wt.pc = "idle" /\ ncmd < MaxCmds
    /\ text \in CatArgs
    /\ \E hash \in {FromStr(text)} :
       \E blob \in {IF hash.res = "Ok" THEN CatFilePretty(objects, hash.buf)
                    ELSE [res |-> hash.res, content |-> <<>>]} :
           out' = [cmd |-> "cat-file", arg |-> text, res |-> blob.res,
                   stdout |-> blob.content]
    /\ pre' = Snapshot
    /\ ncmd' = ncmd + 1
    /\ UNCHANGED <<fs, shards, objects, reported, wt, wr, px>>

\* What the resolution leaves to be written: the Trees pushed, when it succeeded.
\* Here the Trees pushed before a failure are written too.
WriteQueue_Partial(r) == r.trees

\* A queue in which a directory's Tree comes before those of its subdirectories.
WriteQueue_RootFirst(r) ==
    IF r.res = "Ok" THEN [i \in 1..Len(r.trees) |-> r.trees[Len(r.trees) + 1 - i]] ELSE <<>>

\* Tree::write_tree up to its loop: foo(...)? returns early on an error, and the
\* Trees it pushed are dropped
WriteQueue(r) == IF r.res = "Ok" THEN r.trees ELSE <<>>

\* Command::WriteTree, up to the loop of write_tree: the walk, the grouping and
\* the resolution of "."
WtStart(ord) ==
    /\ wt.pc = "idle" /\ ncmd < MaxCmds
    /\ \E r \in {Foo(Collection(Walk(fs, ord)), <<>>, Root)} :
       \E queue \in {WriteQueue(r)} :
           IF queue # <<>>
           THEN /\ wt' = [pc |-> "writing", queue |-> queue, hashed |-> r.hash,
                          res |-> r.res, written |-> <<>>]
                /\ out' = [cmd |-> "write-tree", res |-> "Running"]
           ELSE /\ wt' = [pc |-> "idle"]
                /\ out' = [cmd |-> "write-tree", res |-> r.res, written |-> <<>>,
                           pushed |-> Len(r.trees)]
    /\ pre' = Snapshot
    /\ ncmd' = ncmd + 1
    /\ UNCHANGED <<fs, shards, objects, reported, wr, px>>

\* one turn of the loop of write_tree: the next Tree is hashed and written
WtWrite ==
    /\ wt.pc = "writing" /\ wt.queue # <<>>
    /\ \E hashed \in {TreeHash(Head(wt.queue))} :
       \E w \in {StoreWrite(shards, objects, hashed, TreeWriteable(Head(wt.queue)))} :
           /\ shards' = w.dirs
           /\ objects' = w.files
           /\ IF w.res = "Ok"
              THEN /\ wt' = [wt EXCEPT !.queue = Tail(@),
                                       !.written = Append(@, ObjectPath(hashed))]
                   /\ out' = out
              ELSE /\ wt' = [pc |-> "idle"]
                   /\ out' = [cmd |-> "write-tree", res |-> w.res, written |-> wt.written]
    /\ UNCHANGED <<fs, pre, ncmd, reported, wr, px>>

\* one turn of the loop fails: File::create or the write returns an I/O error
WtFail ==
    /\ wt.pc = "writing" /\ wt.queue # <<>>
    /\ wt' = [pc |-> "idle"]
    /\ out' = [cmd |-> "write-tree", res |-> "IoError", written |-> wt.written]
    /\ UNCHANGED <<fs, shards, objects, pre, ncmd, reported, wr, px>>

\* the loop is over: write_tree returns what foo returned for "."
WtReturn ==
    /\ wt.pc = "writing" /\ wt.queue = <<>>
    /\ wt' = [pc |-> "idle"]
    /\ out' = [cmd |-> "write-tree", res |-> wt.res, hash |-> wt.hashed,
               written |-> wt.written]
    /\ UNCHANGED <<fs, shards, objects, pre, ncmd, reported, wr, px>>

Init ==
    /\ InitStore
    /\ px = PxStart("none", <<>>)

\* a session of commands of every kind is at most MaxSession commands long
SessionHashObject(content, write) == ncmd < MaxSession /\ HashObject(content, write)
SessionCatFile(text) == ncmd < MaxSession /\ CatFile(text)
SessionWriteTree(ord) == ncmd < MaxSession /\ WtStart(ord)

\* every command, on the working directories that can be set up
Next ==
    \/ \E path \in FsPaths, node \in FsNodes : FsCreate(path, node)
    \/ \E content \in StdinContents, write \in BOOLEAN : SessionHashObject(content, write)
    \/ \E text \in CatArgs : SessionCatFile(text)
    \/ \E ord \in FsOrders : SessionWriteTree(ord)
    \/ WtWrite
    \/ WtFail
    \/ WtReturn

Spec == Init /\ [][Next]_vars

\* hash-object and cat-file alone
NextBlob ==
    \/ \E content \in StdinContents, write \in BOOLEAN : HashObject(content, write)
    \/ \E text \in CatArgs : CatFile(text)

SpecBlob == Init /\ [][NextBlob]_vars

\* one write-tree, on the working directories that can be set up
FirstWriteTree(ord) == ncmd = 0 /\ WtStart(ord)

NextTree ==
    \/ \E path \in FsPaths, node \in FsNodes : FsCreate(path, node)
    \/ \E ord \in FsOrders : FirstWriteTree(ord)
    \/ WtWrite
    \/ WtFail
    \/ WtReturn

SpecTree == Init /\ [][NextTree]_vars

(***************************************************************************)
(* The race specification: two processes run HashObject::write on the same *)
(* content at once. A step is one system call: create_dir, File::create    *)
(* (open with O_CREAT and O_TRUNC), or one write of the loop of write_all, *)
(* which takes at most MaxChunk bytes at the descriptor's own offset.      *)
(***************************************************************************)
Writers == {1, 2}

RaceHash == HashObjectHash(wr.content)
RaceData == ZlibWriter(BlobWriteable(wr.content))

\* the store before the race: empty, or as a finished write of the content left it
InitRace ==
    /\ fs = <<>>
    /\ out = [cmd |-> "none"]
    /\ pre = [shards |-> {}, objects |-> <<>>]
    /\ ncmd = 0
    /\ reported = {}
    /\ wt = [pc |-> "idle"]
    /\ px = PxStart("none", <<>>)
    /\ \E content \in StdinContents, stored \in BOOLEAN :
       \E w \in {IF stored
                 THEN StoreWrite({}, <<>>, HashObjectHash(content), BlobWriteable(content))
                 ELSE [res |-> "Ok", dirs |-> {}, files |-> <<>>]} :
           /\ shards = w.dirs
           /\ objects = w.files
           /\ wr = [content |-> content, overlap |-> FALSE,
                    w |-> [i \in Writers |-> [pc |-> "mkdir", off |-> 0]]]

raceFixed == <<fs, out, pre, ncmd, reported, wt, px>>

\* create_dir(...).ignore(AlreadyExists)?
RaceMkdir(i) ==
    /\ wr.w[i].pc = "mkdir"
    /\ \E mk \in {CreateDir(shards, HashDir(RaceHash))} :
           /\ shards' = mk.dirs
           /\ wr' = [wr EXCEPT !.w[i].pc = IF Ignore(mk.res, "AlreadyExists") = "Ok"
                                           THEN "create" ELSE "failed"]
    /\ UNCHANGED <<objects, raceFixed>>

\* File::create(path)?; overlap records that it truncated the file under the
\* other writer's half-written data
RaceCreate(i) ==
    /\ wr.w[i].pc = "create"
    /\ \E cr \in {FileCreate(shards, objects, ObjectPath(RaceHash))} :
           /\ objects' = cr.files
           /\ wr' = [wr EXCEPT !.w[i].pc = IF cr.res = "Ok" THEN "write" ELSE "failed",
                               !.overlap = @ \/ \E j \in Writers \ {i} :
                                                  wr.w[j].pc = "write" /\ wr.w[j].off > 0]
    /\ UNCHANGED <<shards, raceFixed>>

\* one write of write_all: the next n bytes go to the file at this writer's offset
RaceWrite(i, n) ==
    /\ wr.w[i].pc = "write"
    /\ wr.w[i].off + n <= Len(RaceData)
    /\ \E path \in {ObjectPath(RaceHash)} :
           objects' = [objects EXCEPT ![path] =
                          WriteAt(@, wr.w[i].off, SubSeq(RaceData, wr.w[i].off + 1, wr.w[i].off + n))]
    /\ wr' = [wr EXCEPT !.w[i].off = @ + n,
                        !.w[i].pc = IF wr.w[i].off + n = Len(RaceData) THEN "done" ELSE "write"]
    /\ UNCHANGED <<shards, raceFixed>>

NextRace ==
    \E i \in Writers :
        \/ RaceMkdir(i)
        \/ RaceCreate(i)
        \/ \E n \in 1..MaxChunk : RaceWrite(i, n)

SpecRace == InitRace /\ [][NextRace]_vars

(***************************************************************************)
(* The view specification: a Tree is rendered by TreePrinter on a store in *)
(* which each Tree a directory entry names is stored, absent, or stored as *)
(* something that is no Tree.                                              *)
(***************************************************************************)
\* a nest of directories: ViewChain(0) holds a file, ViewChain(k) the directory
\* "e" of ViewChain(k - 1) and a file
RECURSIVE ViewChain(_)
ViewChain(k) ==
    IF k = 0 THEN <<TreeEntry(REGULAR_FILE, <<102>>, ObjectHash(Hi))>>
    ELSE <<TreeEntry(DIRECTORY, <<101>>, TreeHash(ViewChain(k - 1))),
           TreeEntry(EXECUTABLE_FILE, <<103>>, ObjectHash(<<>>))>>

\* the Trees rendered: the nest with a link, a second directory and a file named
\* e-acute beside it; the tree of the ls_tree test; a tree with a name that is
\* not UTF-8; the empty tree
ViewRoot ==
    <<TreeEntry(SYMBOLIC_LINK, <<108>>, ObjectHash(Hi))>> \o ViewChain(MaxViewDepth)
    \o <<TreeEntry(DIRECTORY, <<120, 32, 121>>, TreeHash(ViewChain(0))),
         TreeEntry(REGULAR_FILE, <<195, 169>>, ObjectHash(<<>>))>>

ViewTest ==
    <<TreeEntry(DIRECTORY, <<100, 105, 114, 49>>, Sha1(<<1>>)),
      TreeEntry(DIRECTORY, <<100, 105, 114, 50>>, Sha1(<<2>>)),
      TreeEntry(REGULAR_FILE, <<102, 105, 108, 101, 48>>, ObjectHash(Hi))>>

ViewTrees ==
    {ViewRoot, ViewTest, <<TreeEntry(REGULAR_FILE, <<97, 128>>, ObjectHash(Hi))>>, <<>>}

\* what the file at a Tree's address holds: the Tree, nothing (no file), bytes
\* that are no zlib stream, a Blob, or the empty Tree
ViewSlots == {"tree", "absent", "garbage", "blob", "empty"}
ViewLevels == 0..(MaxViewDepth - 1)

ViewFile(slot, k) ==
    IF slot = "tree" THEN ZlibWriter(TreeWriteable(ViewChain(k)))
    ELSE IF slot = "garbage" THEN <<120, 1>>
    ELSE IF slot = "blob" THEN ZlibWriter(BlobWriteable(Hi))
    ELSE ZlibWriter(TreeWriteable(<<>>))

ViewStore(slots) ==
    LET at(k) == ObjectPath(TreeHash(ViewChain(k)))
        stored == {k \in ViewLevels : slots[k] # "absent"}
    IN  [a \in {at(k) : k \in stored} |->
            LET k == CHOOSE j \in stored : at(j) = a IN ViewFile(slots[k], k)]

InitView ==
    /\ fs = <<>>
    /\ out = [cmd |-> "none"]
    /\ pre = [shards |-> {}, objects |-> <<>>]
    /\ ncmd = 0
    /\ reported = {}
    /\ wt = [pc |-> "idle"]
    /\ wr = <<>>
    /\ \E slots \in [ViewLevels -> ViewSlots] :
           /\ objects = ViewStore(slots)
           /\ shards = {a[1] : a \in DOMAIN ViewStore(slots)}
    /\ px \in {PxStart("view", tree) : tree \in ViewTrees}

\* print!("{}", printer) of a printer with the flags o
Render(o) ==
    /\ px.kind = "view" /\ px.pc = "in"
    /\ px' = [px EXCEPT !.pc = "dec", !.enc = o, !.dec = TreePrinter(objects, px.in, o)]
    /\ UNCHANGED storeVars

NextView == \E o \in Options : Render(o)

SpecView == InitView /\ [][NextView]_vars

(***************************************************************************)
(* Claims about the codec                                                  *)
(***************************************************************************)
\* C3: decoding the canonical encoding of Blob(b) with Blob::try_from succeeds
\* and yields a Blob whose content is b, for every byte string b.
C3_BlobRoundTrip ==
    (px.kind = "blob" /\ px.pc = "dec")
        => (px.dec.res = "Ok" /\ px.dec.content = px.in)

\* a blob holding a NUL and a byte >= 0x80 has been encoded and decoded
C3_Witness ==
    /\ px.kind = "blob" /\ px.pc = "dec"
    /\ px.in = <<NUL, 128>>
    /\ px.dec.res = "Ok"

\* C4: decoding the canonical encoding of a Tree with Tree::try_from succeeds and
\* yields the same entries in the same order; the length the header declares,
\* the sum of rendered_size + 1 + name length + 1 + 20 over the entries, is the
\* number of body bytes written, and rendered_size is the number of octal digits
\* written for the mode: 6, 6, 6 and 5.
C4_DeclaredSize == SumSeq([i \in 1..Len(px.in) |-> TreeEntrySize(px.in[i])])

C4_TreeRoundTrip ==
    /\ (px.kind = "tree" /\ px.pc = "dec")
          => (px.dec.res = "Ok" /\ px.dec.entries = px.in)
    /\ (px.kind = "tree" /\ px.pc \in {"enc", "dec"})
          => /\ Len(px.enc) = Len(StrTree) + Len(FmtDec(C4_DeclaredSize)) + 1
                                + C4_DeclaredSize
             /\ \A i \in 1..Len(px.in) :
                    RenderedSize(px.in[i].perms) = Len(FmtOct(px.in[i].perms))
             /\ RenderedSize(REGULAR_FILE) = 6 /\ RenderedSize(EXECUTABLE_FILE) = 6
             /\ RenderedSize(SYMBOLIC_LINK) = 6 /\ RenderedSize(DIRECTORY) = 5

\* a tree of a directory and a regular file has been encoded and decoded
C4_Witness ==
    /\ px.kind = "tree" /\ px.pc = "dec"
    /\ Len(px.in) = 2
    /\ px.in[1].perms = DIRECTORY /\ px.in[2].perms = REGULAR_FILE
    /\ px.in[1].name # px.in[2].name
    /\ px.dec.res = "Ok"

\* C10: parsing a hash fails with WrongLength exactly when the text's length is
\* not 40 characters, otherwise fails with UnexpectedChar(c), c the first character
\* of the text outside [0-9a-f], and succeeds only on 40 characters of [0-9a-f];
\* it never panics.
NonHex(s) == {i \in 1..Len(s) : s[i] \notin (48..57) \cup (97..102)}

C10_HashParse ==
    (px.kind = "text" /\ px.pc = "dec")
        => /\ px.dec.res # "Panic"
           /\ (px.dec.res = "WrongLength") <=> (Len(px.in) # HashTextLen)
           /\ (Len(px.in) = HashTextLen /\ NonHex(px.in) # {})
                 => (px.dec.res = "UnexpectedChar" /\ px.dec.ch = px.in[Min(NonHex(px.in))])
           /\ (px.dec.res = "Ok") <=> (Len(px.in) = HashTextLen /\ NonHex(px.in) = {})

\* The same with the length taken in bytes of UTF-8, as str::len counts it.
HashParseByBytes ==
    (px.kind = "text" /\ px.pc = "dec")
        => /\ px.dec.res # "Panic"
           /\ (px.dec.res = "WrongLength") <=> (StrLen(px.in) # HashTextLen)
           /\ (StrLen(px.in) = HashTextLen /\ NonHex(px.in) # {})
                 => (px.dec.res = "UnexpectedChar" /\ px.dec.ch = px.in[Min(NonHex(px.in))])
           /\ (px.dec.res = "Ok") <=> (Len(px.in) = HashTextLen /\ NonHex(px.in) = {})

\* C11: the hex rendering of a 20-byte hash is 40 characters of lowercase hex,
\* two for each byte, and parsing it gives the same 20 bytes; rendering the
\* parse of 40 characters of [0-9a-f] gives the same text.
HexValue(ch) == IF ch \in 48..57 THEN ch - 48 ELSE IF ch \in 97..102 THEN ch - 87 ELSE -1

C11_HexRoundTrip ==
    /\ (px.kind = "hash" /\ px.pc \in {"enc", "dec"})
          => /\ Len(px.enc) = 40
             /\ \A i \in 1..20 :
                    /\ 2 * i <= Len(px.enc)
                    /\ HexValue(px.enc[2 * i - 1]) >= 0 /\ HexValue(px.enc[2 * i]) >= 0
                    /\ 16 * HexValue(px.enc[2 * i - 1]) + HexValue(px.enc[2 * i]) = px.in[i]
    /\ (px.kind = "hash" /\ px.pc = "dec")
          => (px.dec.res = "Ok" /\ px.dec.buf = px.in)
    /\ (px.kind = "hex" /\ px.pc \in {"dec", "enc"}) => px.dec.res = "Ok"
    /\ (px.kind = "hex" /\ px.pc = "enc") => px.enc = px.in

\* a hash with a byte below 16 and a byte above 159 has been rendered and parsed
C11_Witness ==
    /\ px.kind = "hash" /\ px.pc = "dec"
    /\ px.in[1] = 9 /\ px.in[2] = 171 /\ px.in[HashLen] = 255
    /\ px.dec.res = "Ok"

\* C12: bytes made of a well-formed header ("blob " or "tree ", a decimal
\* length N, NUL), N body bytes and at least one byte more fail to decode with
\* LengthMismatch, for a Tree whatever the N body bytes are.
TrailingBytes(x, tag) ==
    LET p == Tag(tag, x)
        k == Span(DecDigit, p.rest)
    IN  /\ p.ok /\ k >= 1 /\ Len(p.rest) > k /\ p.rest[k + 1] = NUL
        /\ Len(p.rest) > k + 1 + ParseUsize(SubSeq(p.rest, 1, k), 0)

C12_TrailingBytes ==
    /\ (px.kind = "rawblob" /\ px.pc # "in" /\ TrailingBytes(px.in, StrBlob))
          => px.dec.res = "LengthMismatch"
    /\ (px.kind = "rawtree" /\ px.pc # "in" /\ TrailingBytes(px.in, StrTree))
          => px.dec.res = "LengthMismatch"

\* a Tree's bytes whose body of the declared length is no entry, with a byte after
\* it, have been decoded
C12_Witness ==
    /\ px.kind = "rawtree" /\ px.pc = "dec"
    /\ TrailingBytes(px.in, StrTree)
    /\ TreeTryFrom(SubSeq(px.in, 1, Len(px.in) - 1)).res = "FormatError"
    /\ px.dec.res = "LengthMismatch"

\* C17: the encoding is unique: whatever bytes Blob::try_from or Tree::try_from
\* accepts, the Writeable bytes of the object they return are the same bytes.
C17_UniqueEncoding ==
    (px.kind \in {"rawblob", "rawtree"} /\ px.pc = "enc") => px.enc = px.in

\* The same of the bytes in which no number is written with a leading zero: the
\* header's length, and each entry's mode.
RECURSIVE EntryZeros(_)
EntryZeros(body) ==
    IF body = <<>> THEN FALSE
    ELSE LET e == ParseEntry(body)
         IN  ~e.ok \/ Head(body) = 48 \/ EntryZeros(e.rest)

NoLeadingZero(x) ==
    /\ x[6] = 48 => x[7] = NUL
    /\ SubSeq(x, 1, 5) = StrTree => ~EntryZeros(TreeHeader(x).val)

UniqueEncodingNoZeros ==
    (px.kind \in {"rawblob", "rawtree"} /\ px.pc = "enc" /\ NoLeadingZero(px.in))
        => px.enc = px.in

(***************************************************************************)
(* Claims about the view                                                   *)
(***************************************************************************)
\* C13: without recursion the printer writes one line per entry, in the tree's
\* order; a line is the enabled fields among the permission, the word tree or
\* blob, the hash in hex and the name, in that order, with one space between
\* two fields and none before the first or after the last, for each of the 16
\* combinations; with the name alone the lines are the names.
RECURSIVE Joined(_)
Joined(fields) ==
    IF fields = <<>> THEN <<>>
    ELSE IF Len(fields) = 1 THEN fields[1]
    ELSE fields[1] \o <<SP>> \o Joined(Tail(fields))

PermField(perms) ==
    IF perms = DIRECTORY THEN <<48, 52, 48, 48, 48, 48>>
    ELSE IF perms = REGULAR_FILE THEN <<49, 48, 48, 54, 52, 52>>
    ELSE IF perms = EXECUTABLE_FILE THEN <<49, 48, 48, 55, 53, 53>>
    ELSE <<49, 50, 48, 48, 48, 48>>

\* the text of a name: its characters, when its bytes are UTF-8
NameText(name) ==
    IF name = <<195, 169>> THEN <<233>>
    ELSE name

IsText(name) == \A i \in 1..Len(name) : name[i] < 128 \/ name = <<195, 169>>

ExpectedLine(entry, path, o) ==
    Joined((IF o.show_perms THEN <<PermField(entry.perms)>> ELSE <<>>)
           \o (IF o.show_type
               THEN <<IF entry.perms = DIRECTORY THEN StrTypeTree ELSE StrTypeBlob>>
               ELSE <<>>)
           \o (IF o.show_object THEN <<HashDisplay(entry.hash)>> ELSE <<>>)
           \o (IF o.show_name THEN <<path>> ELSE <<>>))
    \o <<NL>>

Loadable(files, hash) ==
    /\ ObjectPath(hash) \in DOMAIN files
    /\ ZlibReadTree(files[ObjectPath(hash)]).res = "Ok"

RECURSIVE ExpectedLines(_, _, _, _)
ExpectedLines(files, entries, o, prefix) ==
    Concat([i \in 1..Len(entries) |->
        LET path == IF prefix = <<>> THEN entries[i].name
                    ELSE prefix \o <<Slash>> \o entries[i].name
        IN  ExpectedLine(entries[i], NameText(path), o)
            \o (IF entries[i].perms = DIRECTORY /\ Loadable(files, entries[i].hash)
                THEN ExpectedLines(files,
                                   ZlibReadTree(files[ObjectPath(entries[i].hash)]).entries,
                                   o, path)
                ELSE <<>>)])

ChildAddresses ==
    {ObjectPath(TreeHash(ViewChain(k))) : k \in ViewLevels}
    \cup {ObjectPath(ViewTest[i].hash) : i \in 1..2}

EmptyInPlace ==
    [a \in DOMAIN objects \cup ChildAddresses |->
        IF a \in DOMAIN objects /\ ZlibReadTree(objects[a]).res = "Ok" THEN objects[a]
        ELSE ZlibWriter(TreeWriteable(<<>>))]

C14_RecursiveSkip ==
    (px.kind = "view" /\ px.pc = "dec" /\ px.enc.recurse
         /\ \A i \in 1..Len(px.in) : IsText(px.in[i].name))
        => /\ px.dec = ExpectedLines(objects, px.in, px.enc, <<>>)
           /\ px.dec = TreePrinter(EmptyInPlace, px.in, px.enc)

\* the nest has been rendered with every field on a store that holds its first
\* child and, at the address of the child's child, bytes that cannot be
\* decompressed
C14_Witness ==
    /\ px.kind = "view" /\ px.pc = "dec" /\ px.in = ViewRoot
    /\ px.enc = [show_perms |-> TRUE, show_type |-> TRUE, show_object |-> TRUE,
                 show_name |-> TRUE, recurse |-> TRUE]
    /\ Loadable(objects, TreeHash(ViewChain(MaxViewDepth - 1)))
    /\ ~Loadable(objects, TreeHash(ViewChain(0)))
    /\ ObjectPath(TreeHash(ViewChain(0))) \in DOMAIN objects
    /\ ~ZlibDecoder(objects[ObjectPath(TreeHash(ViewChain(0)))]).ok
    /\ Len(px.dec) > Len(TreePrinter(<<>>, px.in, px.enc))

(***************************************************************************)
(* Claims about the store                                                  *)
(***************************************************************************)
\* C1: every object in the store is at the address of the hash of its canonical
\* encoding, the bytes that are stored compressed, and the hash that hash-object
\* prints is the hash of the canonical encoding of the blob.
C1_HashOfEncoding ==
    /\ \A a \in DOMAIN objects :
           LET d == ZlibDecoder(objects[a])
           IN  d.ok /\ ObjectPath(FromBytes(d.data)) = a
    /\ (out.cmd = "hash-object" /\ out.res = "Ok")
           => out.printed = HashDisplay(FromBytes(BlobWriteable(out.content)))

\* The same of the stored Trees alone, and of the blobs of bytes below 0x80.
HashOfEncodingAscii ==
    \A a \in DOMAIN objects :
        LET d == ZlibDecoder(objects[a])
        IN  d.ok /\ ((\A i \in 1..Len(d.data) : d.data[i] < 128)
                         => ObjectPath(FromBytes(d.data)) = a)

\* C2: after write_tree returned Ok(root) on a store that was empty, the store
\* holds the root Tree and, for every entry of every stored Tree, the object the
\* entry's hash names: a Tree for a directory, a Blob for a file or a link.
C2_NoDanglingChild ==
    (out.cmd = "write-tree" /\ out.res = "Ok" /\ DOMAIN pre.objects = {})
        => /\ ObjectPath(out.hash) \in DOMAIN objects
           /\ ZlibReadTree(objects[ObjectPath(out.hash)]).res = "Ok"
           /\ \A a \in DOMAIN objects :
                  LET t == ZlibReadTree(objects[a])
                  IN  t.res = "Ok" =>
                          \A i \in 1..Len(t.entries) :
                              LET c == ObjectPath(t.entries[i].hash)
                              IN  /\ c \in DOMAIN objects
                                  /\ IF t.entries[i].perms = DIRECTORY
                                     THEN ZlibReadTree(objects[c]).res = "Ok"
                                     ELSE ZlibReadBlob(objects[c]).res = "Ok"

\* The same of the directory entries alone: every Tree that a stored Tree names
\* is stored.
NoDanglingTree ==
    (out.cmd = "write-tree" /\ out.res = "Ok" /\ DOMAIN pre.objects = {})
        => /\ ObjectPath(out.hash) \in DOMAIN objects
           /\ \A a \in DOMAIN objects :
                  LET t == ZlibReadTree(objects[a])
                  IN  /\ t.res = "Ok"
                      /\ \A i \in 1..Len(t.entries) :
                             t.entries[i].perms = DIRECTORY
                                 => ObjectPath(t.entries[i].hash) \in DOMAIN objects

\* C5: a hash-object -w of an object whose address already holds its compressed
\* bytes, the shard directory being there, succeeds and leaves the store as it
\* was: the same directories, the same addresses, the same bytes.
C5_Again ==
    /\ out.cmd = "hash-object" /\ out.write
    /\ ObjectPath(HashObjectHash(out.content)) \in DOMAIN pre.objects
    /\ pre.objects[ObjectPath(HashObjectHash(out.content))]
           = ZlibWriter(BlobWriteable(out.content))
    /\ HashDir(HashObjectHash(out.content)) \in pre.shards

C5_RewriteIsNoOp ==
    C5_Again => (out.res = "Ok" /\ objects = pre.objects /\ shards = pre.shards)

\* an object holding a byte >= 0x80 has been written a second time
C5_Witness == C5_Again /\ out.content = <<128>> /\ out.res = "Ok"

\* C7: once hash-object -w has written a blob of content b, cat-file -p of the
\* hash it printed succeeds and prints exactly b.
C7_ReadBack ==
    out.cmd = "cat-file"
        => \A r \in reported :
               r.printed = out.arg => (out.res = "Ok" /\ out.stdout = r.content)

\* a blob holding a byte >= 0x80 has been written and read back
C7_Witness ==
    /\ out.cmd = "cat-file" /\ out.res = "Ok" /\ out.stdout = <<128>>
    /\ \E r \in reported : r.printed = out.arg

\* C8: one write_tree writes no address twice.
WtWritten == IF wt.pc = "writing" THEN wt.written
             ELSE IF out.cmd = "write-tree" THEN out.written ELSE <<>>

C8_WrittenOnce ==
    \A i, j \in 1..Len(WtWritten) : WtWritten[i] = WtWritten[j] => i = j

\* C9: when a file cannot be read, write_tree does not succeed, and when it
\* returns the error of a read it has written nothing: the store is as it was
\* before the call.
C9_ReadFailureWritesNothing ==
    /\ (out.cmd = "write-tree" /\ out.res \in {"Ok", "Running"})
           => \A q \in DOMAIN fs : fs[q].kind # "dir" => fs[q].readable
    /\ (out.cmd = "write-tree" /\ out.res = "Err")
           => /\ wt.pc = "idle"
              /\ out.written = <<>>
              /\ objects = pre.objects /\ shards = pre.shards

\* a read failed after foo had pushed the Tree of a subdirectory
C9_Witness ==
    out.cmd = "write-tree" /\ out.res = "Err" /\ out.pushed >= 1 /\ wt.pc = "idle"

C16_LookupNeverPanics ==
    out.cmd = "write-tree" => out.res # "Panic"

\* The same of the working directories in which every directory, the root
\* included, holds an entry.
LookupNoEmptyDirectory ==
    (out.cmd = "write-tree" /\ out.res = "Panic")
        => \/ DOMAIN fs = {}
           \/ \E d \in DOMAIN fs :
                  fs[d].kind = "dir" /\ \A q \in DOMAIN fs : Parent(q) # d

(***************************************************************************)
(* Claims about concurrent writers                                         *)
(***************************************************************************)
\* C6: when two writers write the same object at once, neither call fails, and
\* once both have finished the file at the hash's address holds exactly the
\* compressed canonical encoding of the object.
RaceOver == \A i \in Writers : wr.w[i].pc \in {"done", "failed"}

C6_RaceConverges ==
    /\ \A i \in Writers : wr.w[i].pc # "failed"
    /\ RaceOver => /\ ObjectPath(RaceHash) \in DOMAIN objects
                   /\ objects[ObjectPath(RaceHash)] = RaceData

\* both have finished, and one created the file while the other was writing it
C6_Witness == RaceOver /\ wr.overlap /\ \A i \in Writers : wr.w[i].pc = "done"

=============================================================================
